---- MODULE Spec2Model ----
(***************************************************************************)
(* Binance P2P monthly report (src/main.py): the files of data/p2p are     *)
(* read, normalised, filtered to completed trades, aggregated for the most *)
(* recent month and rendered to docs/index.html and docs/month_trades.csv. *)
(*                                                                         *)
(* Text is a sequence of one-character strings, so that strip, upper,      *)
(* lower, substring search and float parsing are computed, not assumed.    *)
(* The Cyrillic letters of "завершено" are written cy_z, cy_a, ... and     *)
(* CY_Z, CY_A, ... for their capitals.                                     *)
(***************************************************************************)
EXTENDS Integers, Sequences, FiniteSets

VARIABLES
    data,       \* data/p2p: file name -> file content
    pc,         \* "ready" | "done" | "failed": where the run of main() is
    err,        \* the exception that ended the run, "" if none
    trades,     \* the working set of main() (line 121), <<>> before it exists
    html,       \* docs/index.html
    csv,        \* docs/month_trades.csv
    html0,      \* docs/index.html as it was when the current run started
    csv0,       \* docs/month_trades.csv as it was when the current run started
    runs,       \* number of runs of main() started so far
    side_in,    \* normalize_side harness: the value given
    side_out,   \* normalize_side harness: the results so far, oldest first
    side_pc     \* normalize_side harness: "off" | "in" | "once" | "twice"

vars == <<data, pc, err, trades, html, csv, html0, csv0, runs,
          side_in, side_out, side_pc>>

----------------------------------------------------------------------------
(* Bounds of the model *)

\* files of data/p2p that match the extensions
MaxFiles == 2

\* rows of all the files of data/p2p together
MaxRows == 2

\* runs of main() in a row
MaxRuns == 2

\* pieces of text a side value is made of
MaxTokens == 3

----------------------------------------------------------------------------
(* Characters and strings *)

LowerLetters ==
    <<"a","b","c","d","e","f","g","h","i","j","k","l","m",
      "n","o","p","q","r","s","t","u","v","w","x","y","z",
      "cy_z","cy_a","cy_v","cy_e","cy_r","cy_sh","cy_n","cy_o">>

UpperLetters ==
    <<"A","B","C","D","E","F","G","H","I","J","K","L","M",
      "N","O","P","Q","R","S","T","U","V","W","X","Y","Z",
      "CY_Z","CY_A","CY_V","CY_E","CY_R","CY_SH","CY_N","CY_O">>

Digits == <<"0","1","2","3","4","5","6","7","8","9">>

\* Code point order of the characters the model uses.
CharOrder ==
    <<"\t", " ", ",", "-", ".">> \o Digits \o SubSeq(UpperLetters, 1, 26)
      \o SubSeq(LowerLetters, 1, 26)
      \o SubSeq(UpperLetters, 27, 34) \o SubSeq(LowerLetters, 27, 34)

Whitespace == {" ", "\t"}

IndexIn(c, seq) ==
    IF \E i \in 1..Len(seq) : seq[i] = c
    THEN CHOOSE i \in 1..Len(seq) : seq[i] = c
    ELSE 0

UpperChar(c) ==
    IF IndexIn(c, LowerLetters) > 0 THEN UpperLetters[IndexIn(c, LowerLetters)] ELSE c

LowerChar(c) ==
    IF IndexIn(c, UpperLetters) > 0 THEN LowerLetters[IndexIn(c, UpperLetters)] ELSE c

upper(s) == [i \in 1..Len(s) |-> UpperChar(s[i])]

lower(s) == [i \in 1..Len(s) |-> LowerChar(s[i])]

RECURSIVE lstrip(_)
lstrip(s) ==
    IF s # <<>> /\ Head(s) \in Whitespace THEN lstrip(Tail(s)) ELSE s

RECURSIVE rstrip(_)
rstrip(s) ==
    IF s # <<>> /\ s[Len(s)] \in Whitespace
    THEN rstrip(SubSeq(s, 1, Len(s) - 1))
    ELSE s

strip(s) == rstrip(lstrip(s))

\* sub in s
Contains(s, sub) ==
    \E i \in 0..(Len(s) - Len(sub)) : SubSeq(s, i + 1, i + Len(sub)) = sub

startswith(s, p) == Len(s) >= Len(p) /\ SubSeq(s, 1, Len(p)) = p

endswith(s, p) == Len(s) >= Len(p) /\ SubSeq(s, Len(s) - Len(p) + 1, Len(s)) = p

\* s.replace(c, "")
RemoveChar(s, c) == SelectSeq(s, LAMBDA ch : ch # c)

\* Python's comparison of two strings, by code point.
RECURSIVE StrLess(_, _)
StrLess(a, b) ==
    IF b = <<>> THEN FALSE
    ELSE IF a = <<>> THEN TRUE
    ELSE IF Head(a) = Head(b) THEN StrLess(Tail(a), Tail(b))
    ELSE IndexIn(Head(a), CharOrder) < IndexIn(Head(b), CharOrder)

----------------------------------------------------------------------------
(* Cells: a cell of a table is a string or missing (NaN). *)

NaN == [na |-> TRUE, s |-> <<>>]

Str(s) == [na |-> FALSE, s |-> s]

isna(c) == c.na

NanText == <<"n","a","n">>

\* str(x) of a cell: the text itself, "nan" for a missing cell.
PyStr(c) == IF c.na THEN NanText ELSE c.s

BUY == <<"B","U","Y">>

SELL == <<"S","E","L","L">>

\* Variant: "SELL" is looked for before "BUY"
normalize_side_swapped(x) ==
    LET s == upper(strip(PyStr(x)))
    IN  IF Contains(s, SELL) THEN SELL
        ELSE IF Contains(s, BUY) THEN BUY
        ELSE IF startswith(s, <<"B">>) THEN BUY
        ELSE IF startswith(s, <<"S">>) THEN SELL
        ELSE s

normalize_side(x) ==
    LET s == upper(strip(PyStr(x)))
    IN  IF Contains(s, BUY) THEN BUY
        ELSE IF Contains(s, SELL) THEN SELL
        ELSE IF startswith(s, <<"B">>) THEN BUY
        ELSE IF startswith(s, <<"S">>) THEN SELL
        ELSE s

COMPLETED_VALUES ==
    { <<"c","o","m","p","l","e","t","e","d">>,
      <<"s","u","c","c","e","s","s">>,
      <<"s","u","c","c","e","s","s","f","u","l">>,
      <<"f","i","n","i","s","h","e","d">>,
      <<"cy_z","cy_a","cy_v","cy_e","cy_r","cy_sh","cy_e","cy_n","cy_o">> }

\* Variant: the status is compared as it stands
is_completed_unnormalized(x) == PyStr(x) \in COMPLETED_VALUES

is_completed(x) == lower(strip(PyStr(x))) \in COMPLETED_VALUES

----------------------------------------------------------------------------
(* Floating point values: a finite number, +inf or -inf, or NaN.  Finite   *)
(* values are whole numbers of currency units; what float() makes of text  *)
(* with a decimal point or an exponent is outside the inputs of the model. *)

Fin(n) == [k |-> "fin", v |-> n]

Inf(sign) == [k |-> "inf", v |-> sign]

FNaN == [k |-> "nan", v |-> 0]

\* Marks the ValueError of float(); not a float.
FErr == [k |-> "err", v |-> 0]

AllDigits(s) == s # <<>> /\ \A i \in 1..Len(s) : IndexIn(s[i], Digits) > 0

RECURSIVE DigitsVal(_)
DigitsVal(s) ==
    IF s = <<>> THEN 0
    ELSE 10 * DigitsVal(SubSeq(s, 1, Len(s) - 1)) + (IndexIn(s[Len(s)], Digits) - 1)

\* float(s) of an unsigned text
to_float_unsigned(s) ==
    IF lower(s) = NanText THEN FNaN
    ELSE IF lower(s) = <<"i","n","f">> THEN Inf(1)
    ELSE IF AllDigits(s) THEN Fin(DigitsVal(s))
    ELSE FErr

fneg(a) == IF a.k = "nan" \/ a.k = "err" THEN a ELSE [k |-> a.k, v |-> 0 - a.v]

\* Variant: text that is no number becomes NaN instead of raising
to_float_coerce(s0) ==
    LET s == strip(s0)
        x == IF s # <<>> /\ Head(s) = "-" THEN fneg(to_float_unsigned(Tail(s)))
             ELSE to_float_unsigned(s)
    IN  IF x = FErr THEN FNaN ELSE x

\* float(s): surrounding blanks and one leading sign are accepted
to_float(s0) ==
    LET s == strip(s0)
    IN  IF s # <<>> /\ Head(s) = "-" THEN fneg(to_float_unsigned(Tail(s)))
        ELSE to_float_unsigned(s)

fadd(a, b) ==
    IF a.k = "nan" \/ b.k = "nan" THEN FNaN
    ELSE IF a.k = "inf" /\ b.k = "inf" THEN (IF a.v = b.v THEN a ELSE FNaN)
    ELSE IF a.k = "inf" THEN a
    ELSE IF b.k = "inf" THEN b
    ELSE Fin(a.v + b.v)

fsub(a, b) == fadd(a, fneg(b))

\* a > b on floats: false when either is NaN
fgt(a, b) ==
    IF a.k = "nan" \/ b.k = "nan" THEN FALSE
    ELSE IF a.k = "inf" THEN a.v = 1 /\ ~(b.k = "inf" /\ b.v = 1)
    ELSE IF b.k = "inf" THEN b.v = -1
    ELSE a.v > b.v

\* max(0.0, x): x when x > 0.0, else 0.0 (so 0.0 for NaN)
\* Variant: the comparison is the wrong way round
pymax0_swapped(x) == IF fgt(Fin(0), x) THEN x ELSE Fin(0)

pymax0(x) == IF fgt(x, Fin(0)) THEN x ELSE Fin(0)

\* IPN_RATE = 0.10, in percent
IPN_RATE_PCT == 10

\* x * IPN_RATE, exact for the finite amounts of the model (multiples of 10)
times_rate(x) ==
    IF x.k = "fin" THEN Fin((x.v * IPN_RATE_PCT) \div 100) ELSE x

RECURSIVE fsum(_)
fsum(xs) == IF xs = <<>> THEN Fin(0) ELSE fadd(Head(xs), fsum(Tail(xs)))

----------------------------------------------------------------------------
(* Timestamps.  dateutil's parser is modelled on the texts the inputs use: *)
(* YYYY-MM-DD is a date, any other text raises ParserError.                *)

IsDate(s) ==
    /\ Len(s) = 10
    /\ s[5] = "-" /\ s[8] = "-"
    /\ AllDigits(SubSeq(s, 1, 4)) /\ AllDigits(SubSeq(s, 6, 7))
    /\ AllDigits(SubSeq(s, 9, 10))
    /\ DigitsVal(SubSeq(s, 6, 7)) \in 1..12
    /\ DigitsVal(SubSeq(s, 9, 10)) \in 1..28

parser_parse(s) ==
    [y |-> DigitsVal(SubSeq(s, 1, 4)),
     m |-> DigitsVal(SubSeq(s, 6, 7)),
     d |-> DigitsVal(SubSeq(s, 9, 10))]

DtLess(a, b) ==
    \/ a.y < b.y
    \/ a.y = b.y /\ a.m < b.m
    \/ a.y = b.y /\ a.m = b.m /\ a.d < b.d

\* n in decimal, zero-padded to w digits
RECURSIVE Pad(_, _)
Pad(n, w) == IF w = 0 THEN <<>> ELSE Pad(n \div 10, w - 1) \o <<Digits[(n % 10) + 1]>>

\* dt.strftime("%Y-%m")
strftime_Ym(dt) == Pad(dt.y, 4) \o <<"-">> \o Pad(dt.m, 2)

----------------------------------------------------------------------------
(* Files and tables.  A file of data/p2p has a format ("csv", "excel", or  *)
(* "junk" for bytes no reader accepts), a header and rows of cells.        *)

CsvExt == <<".","c","s","v">>

XlsxExt == <<".","x","l","s","x">>

XlsExt == <<".","x","l","s">>

RECURSIVE SortNames(_)
SortNames(S) ==
    IF S = {} THEN <<>>
    ELSE LET first == CHOOSE x \in S : \A y \in S \ {x} : StrLess(x, y)
         IN  <<first>> \o SortNames(S \ {first})

\* sorted(glob("*.csv") + glob("*.xlsx") + glob("*.xls"))
DATA_FILES ==
    SortNames({n \in DOMAIN data :
                 endswith(n, CsvExt) \/ endswith(n, XlsxExt) \/ endswith(n, XlsExt)})

CANDS ==
    [order_id |-> <<"Order Number", "Order No", "OrderID", "Order Id">>,
     time     |-> <<"Create Time", "Created Time", "Time", "Date">>,
     side     |-> <<"Side", "Type", "Order Type">>,
     total    |-> <<"Total Price", "Total", "Total Amount", "Total(Fiat)", "Total Fiat">>,
     status   |-> <<"Status", "Order Status">>]

\* The table read, or ok = FALSE when the reader raises.
read_table(path) ==
    LET f == data[path]
        reader == IF endswith(lower(path), CsvExt) THEN "csv" ELSE "excel"
    IN  IF f.fmt = reader
        THEN [ok |-> TRUE, columns |-> f.columns, rows |-> f.rows]
        ELSE [ok |-> FALSE, columns |-> <<>>, rows |-> <<>>]

has_col(df, names) == \E i \in 1..Len(names) : IndexIn(names[i], df.columns) > 0

\* The first name of names that is a column of df (has_col holds).
pick_col(df, names) ==
    LET i == CHOOSE i \in 1..Len(names) :
                 /\ IndexIn(names[i], df.columns) > 0
                 /\ \A j \in 1..(i - 1) : IndexIn(names[j], df.columns) = 0
    IN  names[i]

\* df[c].iloc[r]
CellAt(df, c, r) == df.rows[r][IndexIn(c, df.columns)]

\* Series.astype(str) of one cell: a missing cell becomes the text "nan" (as
\* pandas does before 3.0)
astype_str(c) == Str(PyStr(c))

\* Variant: the exception is swallowed and the file counts as empty
Swallow(e) == [exc |-> "", out |-> <<>>]

Raise(e) == [exc |-> e, out |-> <<>>]

\* dropna(subset=["order_id", "created_at", "side", "total_fiat"]) keeps the row
notna_row(r) ==
    /\ ~isna(r.order_id) /\ ~isna(r.created_at) /\ ~isna(r.side)
    /\ r.total_fiat.k # "nan"

with_month(r) ==
    [order_id |-> r.order_id, created_at |-> r.created_at, side |-> r.side,
     total_fiat |-> r.total_fiat,
     dt |-> parser_parse(r.created_at.s),
     month |-> strftime_Ym(parser_parse(r.created_at.s))]

\* Lines 66-72: the normalised frame, every row of the file
normalized(df) ==
    LET order_c == pick_col(df, CANDS.order_id)
        time_c  == pick_col(df, CANDS.time)
        side_c  == pick_col(df, CANDS.side)
        total_c == pick_col(df, CANDS.total)
        stat_c  == pick_col(df, CANDS.status)
    IN  [r \in 1..Len(df.rows) |->
           [order_id   |-> Str(strip(astype_str(CellAt(df, order_c, r)).s)),
            created_at |-> Str(strip(astype_str(CellAt(df, time_c, r)).s)),
            side       |-> Str(normalize_side(CellAt(df, side_c, r))),
            total_fiat |-> to_float(RemoveChar(astype_str(CellAt(df, total_c, r)).s, ",")),
            status_ok  |-> is_completed(CellAt(df, stat_c, r))]]

\* Variant: rows whose side is neither BUY nor SELL are dropped too
surviving_buy_sell(frame) ==
    SelectSeq(SelectSeq(SelectSeq(frame, LAMBDA r : r.status_ok), notna_row),
              LAMBDA r : r.side \in {Str(BUY), Str(SELL)})

\* Lines 74-75: the rows that survive the status filter and dropna
surviving(frame) ==
    SelectSeq(SelectSeq(frame, LAMBDA r : r.status_ok), notna_row)

\* [exc |-> "", out |-> rows] or [exc |-> the exception raised, out |-> <<>>]
parse_one_file(path) ==
    LET df == read_table(path)
    IN  IF ~df.ok THEN Raise("ReadError")
        ELSE IF \E f \in DOMAIN CANDS : ~has_col(df, CANDS[f]) THEN Raise("KeyError")
        ELSE
          LET frame == normalized(df)
              out   == surviving(frame)
          IN  IF \E r \in 1..Len(frame) : frame[r].total_fiat.k = "err"
              THEN Raise("ValueError")
              ELSE IF \E r \in 1..Len(out) : ~IsDate(out[r].created_at.s)
              THEN Raise("ParserError")
              \* line 78: apply on no rows gives an object column, which has no .dt
              ELSE IF out = <<>> THEN Raise("AttributeError")
              ELSE [exc |-> "", out |-> [r \in 1..Len(out) |-> with_month(out[r])]]

----------------------------------------------------------------------------
(* main() *)

RECURSIVE Flatten(_)
Flatten(ss) == IF ss = <<>> THEN <<>> ELSE Head(ss) \o Flatten(Tail(ss))

\* Variant: the earliest month
min_month(t) ==
    CHOOSE m \in {t[i].month : i \in 1..Len(t)} :
        \A i \in 1..Len(t) : ~StrLess(t[i].month, m)

\* trades["month"].max()
max_month(t) ==
    CHOOSE m \in {t[i].month : i \in 1..Len(t)} :
        \A i \in 1..Len(t) : ~StrLess(m, t[i].month)

of_month(t, month) == SelectSeq(t, LAMBDA r : r.month = month)

\* Variant: the side is not looked at
side_sum_any(m, side) == fsum([i \in 1..Len(m) |-> m[i].total_fiat])

side_sum(m, side) ==
    fsum([i \in 1..Len(SelectSeq(m, LAMBDA r : r.side = Str(side))) |->
             SelectSeq(m, LAMBDA r : r.side = Str(side))[i].total_fiat])

CsvRow(r) ==
    [created_at |-> r.created_at.s, side |-> r.side.s,
     total_fiat |-> r.total_fiat, order_id |-> r.order_id.s]

\* m.sort_values("dt")[...]: every order of the rows that is ascending in dt
\* (the default sort is not stable, so rows of equal dt may come in any order)
sorted_csv(m) ==
    { [i \in 1..Len(m) |-> CsvRow(m[p[i]])] :
        p \in { q \in [1..Len(m) -> 1..Len(m)] :
                  /\ \A i, j \in 1..Len(m) : i # j => q[i] # q[j]
                  /\ \A i, j \in 1..Len(m) : i < j => ~DtLess(m[q[j]].dt, m[q[i]].dt) } }

Absent == [exists |-> FALSE, rows |-> <<>>]

BlankPage(kind) ==
    [page |-> kind, current_month |-> <<>>, month_trades |-> 0,
     buy_sum |-> Fin(0), sell_sum |-> Fin(0), raw_diff |-> Fin(0),
     profit_tax_base |-> Fin(0), unclosed |-> Fin(0), ipn |-> Fin(0),
     files |-> <<>>]

\* Lines 134-148 and the figures of the page of lines 156-197
report(t, files) ==
    LET current_month == max_month(t)
        m        == of_month(t, current_month)
        buy_sum  == side_sum(m, BUY)
        sell_sum == side_sum(m, SELL)
        raw_diff == fsub(sell_sum, buy_sum)
        profit_tax_base == pymax0(raw_diff)
    IN  [page |-> "report", current_month |-> current_month,
         month_trades |-> Len(m),
         buy_sum |-> buy_sum, sell_sum |-> sell_sum, raw_diff |-> raw_diff,
         profit_tax_base |-> profit_tax_base,
         unclosed |-> pymax0(fneg(raw_diff)),
         ipn |-> times_rate(profit_tax_base),
         files |-> files]

Parsed(files) == [i \in 1..Len(files) |-> parse_one_file(files[i])]

\* One run of main(), from the discovery of the files to its return or its
\* exception.
Main ==
    /\ pc = "ready"
    /\ runs' = runs + 1
    /\ html0' = html
    /\ csv0' = csv
    /\ LET files  == DATA_FILES
           parsed == Parsed(files)
       IN  IF files = <<>>
           THEN /\ html' = BlankPage("no_data")
                /\ pc' = "done" /\ err' = "" /\ trades' = <<>>
                /\ UNCHANGED csv
           ELSE IF \E i \in 1..Len(files) : parsed[i].exc # ""
           THEN /\ pc' = "failed"
                /\ err' = parsed[CHOOSE i \in 1..Len(files) :
                                   /\ parsed[i].exc # ""
                                   /\ \A j \in 1..(i - 1) : parsed[j].exc = ""].exc
                /\ trades' = <<>>
                /\ UNCHANGED <<html, csv>>
           ELSE LET t == Flatten([i \in 1..Len(files) |-> parsed[i].out])
                IN  IF t = <<>>
                    THEN /\ html' = BlankPage("no_trades")
                         /\ pc' = "done" /\ err' = "" /\ trades' = t
                         /\ UNCHANGED csv
                    ELSE /\ \E rows \in sorted_csv(of_month(t, max_month(t))) :
                                csv' = [exists |-> TRUE, rows |-> rows]
                         /\ html' = report(t, files)
                         /\ pc' = "done" /\ err' = "" /\ trades' = t
    /\ UNCHANGED <<data, side_in, side_out, side_pc>>

\* The operator replaces the content of data/p2p and starts the program again.
Upload(dir) ==
    /\ pc \in {"done", "failed"}
    /\ runs < MaxRuns
    /\ data' = dir
    /\ pc' = "ready"
    /\ UNCHANGED <<err, trades, html, csv, html0, csv0, runs,
                   side_in, side_out, side_pc>>

----------------------------------------------------------------------------
(* normalize_side on its own: applied to a value, then to its own result.  *)

Normalize ==
    /\ side_pc = "in"
    /\ side_out' = <<normalize_side(side_in)>>
    /\ side_pc' = "once"
    /\ UNCHANGED <<data, pc, err, trades, html, csv, html0, csv0, runs, side_in>>

Renormalize ==
    /\ side_pc = "once"
    /\ side_out' = Append(side_out, normalize_side(Str(side_out[1])))
    /\ side_pc' = "twice"
    /\ UNCHANGED <<data, pc, err, trades, html, csv, html0, csv0, runs, side_in>>

----------------------------------------------------------------------------
(* Inputs *)

T_a_csv == <<"a",".","c","s","v">>

T_b_xlsx == <<"b",".","x","l","s","x">>

T_c_xls == <<"c",".","x","l","s">>

T_d_csv == <<"d",".","c","s","v">>

T_notes == <<"n",".","t","x","t">>

\* The i-th table file of a directory has the i-th of these names.
FileNames == <<T_b_xlsx, T_a_csv, T_c_xls, T_d_csv>>

HeaderA == <<"Order Number", "Create Time", "Side", "Total Price", "Status">>

\* Other aliases in another order; "Type" wins over "Order Type" for the side.
HeaderB == <<"Order Status", "Order Type", "Type", "Total Amount", "Created Time", "OrderID">>

\* No alias of the status.
HeaderNoStatus == <<"Order Number", "Create Time", "Side", "Total Price">>

Row(order_id, time, side, total, status) ==
    [order_id |-> order_id, time |-> time, side |-> side, total |-> total,
     status |-> status]

LayOut(header, r) ==
    IF header = HeaderA THEN <<r.order_id, r.time, r.side, r.total, r.status>>
    ELSE IF header = HeaderB
    THEN <<r.status, Str(<<"P","2","P">>), r.side, r.total, r.time, r.order_id>>
    ELSE <<r.order_id, r.time, r.side, r.total>>

FmtOf(name) == IF endswith(name, CsvExt) THEN "csv" ELSE "excel"

TableFile(name, header, rs) ==
    [fmt |-> FmtOf(name), columns |-> header,
     rows |-> [i \in 1..Len(rs) |-> LayOut(header, rs[i])]]

JunkFile == [fmt |-> "junk", columns |-> <<>>, rows |-> <<>>]

NotesFile == [fmt |-> "junk", columns |-> <<>>, rows |-> <<>>]

Date(y, m, d) == Str(Pad(y, 4) \o <<"-">> \o Pad(m, 2) \o <<"-">> \o Pad(d, 2))

Id(n) == Str(<<"o">> \o Pad(n, 2))

RECURSIVE SumTo(_, _)
SumTo(f, n) == IF n = 0 THEN 0 ELSE f[n] + SumTo(f, n - 1)

FileKinds == {"table", "junk", "nocol"}

\* data/p2p with nf files of the given kinds; file i holds lens[i] rows of flat.
Dir(nf, kinds, lens, flat) ==
    [n \in {FileNames[i] : i \in 1..nf} \cup {T_notes} |->
       IF n = T_notes THEN NotesFile
       ELSE LET i  == IndexIn(n, FileNames)
                rs == SubSeq(flat, SumTo(lens, i - 1) + 1, SumTo(lens, i))
            IN  IF kinds[i] = "junk" THEN JunkFile
                ELSE IF kinds[i] = "nocol" THEN TableFile(n, HeaderNoStatus, rs)
                ELSE TableFile(n, IF i % 2 = 1 THEN HeaderA ELSE HeaderB, rs)]

\* The directories of at most MaxFiles files holding at most MaxRows rows of
\* Rows together; a file that cannot be read or lacks a column holds no row.
InitData(Rows) ==
    \E nf \in 0..MaxFiles :
      \E kinds \in [1..nf -> FileKinds], lens \in [1..nf -> 0..MaxRows] :
        /\ SumTo(lens, nf) <= MaxRows
        /\ \A i \in 1..nf : kinds[i] # "table" => lens[i] = 0
        /\ \E flat \in [1..SumTo(lens, nf) -> Rows] :
             data = Dir(nf, kinds, lens, flat)

InitRest ==
    /\ pc = "ready" /\ err = "" /\ trades = <<>>
    /\ html = BlankPage("absent") /\ csv = Absent
    /\ html0 = BlankPage("absent") /\ csv0 = Absent
    /\ runs = 0

HarnessOff == side_in = NaN /\ side_out = <<>> /\ side_pc = "off"

T_completed == <<"C","o","m","p","l","e","t","e","d">>

T_completed_padded == <<" ","C","o","m","p","l","e","t","e","d"," ">>

T_success == <<"S","U","C","C","E","S","S">>

T_finished == <<"f","i","n","i","s","h","e","d">>

T_successful == <<"s","u","c","c","e","s","s","f","u","l","\t">>

T_zaversheno == <<"CY_Z","cy_a","cy_v","cy_e","cy_r","cy_sh","cy_e","cy_n","cy_o">>

T_pending == <<"p","e","n","d","i","n","g">>

T_cancelled == <<"C","a","n","c","e","l","l","e","d">>

T_1000 == <<"1",",","0","0","0">>

T_1500 == <<"1","5","0","0">>

T_2000 == <<"2",",","0","0","0">>

T_500 == <<"5","0","0">>

T_inf == <<"i","n","f">>

T_Buy == <<"B","u","y">>

T_buy == <<"b","u","y">>

T_SELL == <<"S","E","L","L">>

T_Sell_padded == <<" ","S","e","l","l"," ">>

T_Transfer == <<"T","r","a","n","s","f","e","r">>

T_soon == <<"s","o","o","n">>

T_12x == <<"1","2","x">>

R_buy_1000 == Row(Id(1), Date(2024, 1, 10), Str(T_Buy), Str(T_1000), Str(T_completed))

R_sell_1500 == Row(Id(2), Date(2024, 1, 12), Str(T_SELL), Str(T_1500), Str(T_completed_padded))

R_buy_2000 == Row(Id(3), Date(2024, 1, 11), Str(T_buy), Str(T_2000), Str(T_success))

R_sell_500 == Row(Id(4), Date(2024, 1, 13), Str(T_Sell_padded), Str(T_500), Str(T_zaversheno))

R_dec_sell == Row(Id(5), Date(2023, 12, 20), Str(T_SELL), Str(T_2000), Str(T_finished))

R_feb_pending == Row(Id(6), Date(2024, 2, 1), Str(T_Buy), Str(T_1500), Str(T_pending))

R_transfer == Row(Id(7), Date(2024, 1, 14), Str(T_Transfer), Str(T_1000), Str(T_completed))

R_buy_inf == Row(Id(8), Date(2024, 1, 15), Str(T_Buy), Str(T_inf), Str(T_completed))

R_sell_inf == Row(Id(9), Date(2024, 1, 16), Str(T_SELL), Str(T_inf), Str(T_successful))

R_feb_cancelled == Row(Id(10), Date(2024, 2, 2), Str(T_SELL), Str(T_500), Str(T_cancelled))

R_no_order == Row(NaN, Date(2024, 1, 11), Str(T_SELL), Str(T_1500), Str(T_completed))

R_no_time == Row(Id(12), NaN, Str(T_Buy), Str(T_1000), Str(T_completed))

R_no_side == Row(Id(13), Date(2024, 1, 12), NaN, Str(T_500), Str(T_completed))

R_no_total == Row(Id(14), Date(2024, 1, 13), Str(T_SELL), NaN, Str(T_completed))

R_bad_total_pending == Row(Id(15), Date(2024, 1, 14), Str(T_Buy), Str(T_12x), Str(T_pending))

R_bad_total == Row(Id(19), Date(2024, 1, 14), Str(T_SELL), Str(T_12x), Str(T_completed))

R_bad_time_pending == Row(Id(16), Str(T_soon), Str(T_Buy), Str(T_1000), Str(T_pending))

R_bad_time == Row(Id(17), Str(T_soon), Str(T_SELL), Str(T_500), Str(T_completed))

R_bad_time_no_total == Row(Id(18), Str(T_soon), Str(T_Buy), NaN, Str(T_completed))

\* Completed BUY and SELL rows, finite and infinite amounts, one of an earlier month.
TotalsRows ==
    {R_buy_1000, R_sell_1500, R_buy_2000, R_sell_500, R_buy_inf, R_sell_inf, R_dec_sell}

\* Rows of three months, completed or not, one with a side that is no side.
MonthsRows ==
    {R_buy_1000, R_sell_1500, R_dec_sell, R_feb_pending, R_transfer, R_feb_cancelled}

\* Completed rows with a missing cell, and a sound one.
MissingRows == {R_buy_1000, R_no_order, R_no_time, R_no_side, R_no_total}

\* Rows with an amount that is no number or a time that is no date, and a
\* sound one.
FaultRows ==
    {R_buy_1000, R_bad_total, R_bad_total_pending, R_bad_time_pending, R_bad_time,
     R_bad_time_no_total}

\* What a file of the repeated runs can be: kind and rows.
RunFiles ==
    { [kind |-> "table", rows |-> <<R_buy_1000>>],
      [kind |-> "table", rows |-> <<R_sell_1500, R_dec_sell>>],
      [kind |-> "table", rows |-> <<R_feb_pending>>],
      [kind |-> "table", rows |-> <<R_buy_1000, R_bad_total_pending>>],
      [kind |-> "table", rows |-> <<R_bad_time, R_sell_1500>>],
      [kind |-> "junk", rows |-> <<>>],
      [kind |-> "nocol", rows |-> <<>>] }

RunDirs ==
    { Dir(Len(fs), [i \in 1..Len(fs) |-> fs[i].kind],
          [i \in 1..Len(fs) |-> Len(fs[i].rows)],
          Flatten([i \in 1..Len(fs) |-> fs[i].rows])) :
        fs \in UNION {[1..k -> RunFiles] : k \in 0..2} }

\* Pieces a side value is made of.
SideTokens ==
    { <<" ">>, <<"\t">>, <<"B">>, <<"b","u","y">>, <<"U","Y">>, <<"S">>,
      <<"s","e","l","l">>, <<"E","L","L">>, <<"x">> }

SideInputs ==
    {NaN} \cup { Str(Flatten(ts)) : ts \in UNION {[1..k -> SideTokens] : k \in 0..MaxTokens} }

Init == InitData(TotalsRows) /\ InitRest /\ HarnessOff

InitMonths == InitData(MonthsRows) /\ InitRest /\ HarnessOff

InitMissing == InitData(MissingRows) /\ InitRest /\ HarnessOff

InitFaults == InitData(FaultRows) /\ InitRest /\ HarnessOff

InitRuns == data \in RunDirs /\ InitRest /\ HarnessOff

InitSide ==
    /\ data = Dir(0, <<>>, <<>>, <<>>) /\ InitRest
    /\ side_in \in SideInputs /\ side_out = <<>> /\ side_pc = "in"

Next == Main

NextRuns == Main \/ \E dir \in RunDirs : Upload(dir)

NextSide == Normalize \/ Renormalize

\* One run of main() on totals of one month
Spec == Init /\ [][Next]_vars

\* One run of main() on rows of several months and statuses
SpecMonths == InitMonths /\ [][Next]_vars

\* One run of main() on rows with missing cells
SpecMissing == InitMissing /\ [][Next]_vars

\* One run of main() on rows with malformed amounts and times
SpecFaults == InitFaults /\ [][Next]_vars

\* Runs of main() one after another, the operator changing data/p2p in between
SpecRuns == InitRuns /\ [][NextRuns]_vars

\* normalize_side applied to a value and to its own result
SpecSide == InitSide /\ [][NextSide]_vars

----------------------------------------------------------------------------
(* What the claims speak of, read off the input files and the outputs *)

Matched == {DATA_FILES[i] : i \in 1..Len(DATA_FILES)}

\* The tables that can be read and have the five columns
GoodTables ==
    {n \in Matched : read_table(n).ok
                       /\ \A f \in DOMAIN CANDS : has_col(read_table(n), CANDS[f])}

\* Every row of every such table: <<file, row number>>
Src == UNION { {<<n, r>> : r \in 1..Len(read_table(n).rows)} : n \in GoodTables }

SrcCell(x, field) ==
    CellAt(read_table(x[1]), pick_col(read_table(x[1]), CANDS[field]), x[2])

SrcRow(x) ==
    Row(SrcCell(x, "order_id"), SrcCell(x, "time"), SrcCell(x, "side"),
        SrcCell(x, "total"), SrcCell(x, "status"))

RECURSIVE SetToSeq(_)
SetToSeq(S) ==
    IF S = {} THEN <<>>
    ELSE LET x == CHOOSE y \in S : TRUE IN <<x>> \o SetToSeq(S \ {x})

\* The sum of the amounts of the rows X of the input
SrcSum(X) ==
    LET xs == SetToSeq(X)
    IN  fsum([i \in 1..Len(xs) |->
                to_float(RemoveChar(PyStr(SrcCell(xs[i], "total")), ","))])

\* Year and month of a row whose time is a date, as a number that grows with time
SrcMonthNo(x) ==
    LET s == strip(PyStr(SrcCell(x, "time")))
    IN  12 * DigitsVal(SubSeq(s, 1, 4)) + DigitsVal(SubSeq(s, 6, 7))

MonthNo(month) == 12 * DigitsVal(SubSeq(month, 1, 4)) + DigitsVal(SubSeq(month, 6, 7))

SrcSide(x) == upper(strip(PyStr(SrcCell(x, "side"))))

Populated == pc = "done" /\ html.page = "report"

IsZero(x) == x = Fin(0)

IsPositive(x) == (x.k = "fin" /\ x.v > 0) \/ (x.k = "inf" /\ x.v = 1)

----------------------------------------------------------------------------
(* C9 *)

\* C9: normalize_side gives BUY to a trimmed, uppercased value that contains
\* "BUY"; else SELL to one that contains "SELL"; else BUY to one that starts
\* with "B"; else SELL to one that starts with "S"; else the uppercased value
\* itself.  Applied to its own result it returns that result.
C9_SidePriority ==
    side_pc \in {"once", "twice"} =>
      LET s == upper(strip(PyStr(side_in)))
          r == side_out[1]
      IN  /\ Contains(s, BUY) => r = BUY
          /\ (~Contains(s, BUY) /\ Contains(s, SELL)) => r = SELL
          /\ (~Contains(s, BUY) /\ ~Contains(s, SELL) /\ s # <<>> /\ s[1] = "B")
               => r = BUY
          /\ (~Contains(s, BUY) /\ ~Contains(s, SELL) /\ s # <<>> /\ s[1] = "S")
               => r = SELL
          /\ (~Contains(s, BUY) /\ ~Contains(s, SELL)
                /\ (s = <<>> \/ s[1] \notin {"B", "S"})) => r = s
          /\ side_pc = "twice" => side_out[2] = side_out[1]

\* A value that starts with "S" and contains both "BUY" and "SELL" came out as
\* BUY, twice.
C9_Witness ==
    /\ side_pc = "twice"
    /\ ~side_in.na
    /\ startswith(strip(side_in.s), <<"S">>)
    /\ Contains(upper(side_in.s), BUY) /\ Contains(upper(side_in.s), SELL)
    /\ side_out = <<BUY, BUY>>

----------------------------------------------------------------------------
(* C2 *)

C2_Signs ==
    /\ IsZero(html.profit_tax_base) \/ IsPositive(html.profit_tax_base)
    /\ IsZero(html.unclosed) \/ IsPositive(html.unclosed)
    /\ IsZero(html.profit_tax_base) \/ IsZero(html.unclosed)
    /\ IsPositive(html.profit_tax_base) <=> fgt(html.sell_sum, html.buy_sum)
    /\ IsPositive(html.unclosed) <=> fgt(html.buy_sum, html.sell_sum)

\* C2 as claimed: in every populated run profit_base >= 0 and unclosed_balance
\* >= 0, one of them is zero, both are zero exactly when raw_diff == 0, profit
\* is positive exactly when sell_total > buy_total and unclosed exactly when
\* buy_total > sell_total.
C2_Original ==
    Populated =>
      /\ C2_Signs
      /\ (IsZero(html.profit_tax_base) /\ IsZero(html.unclosed))
           <=> IsZero(html.raw_diff)

\* C2 amended: as claimed, but both are zero exactly when raw_diff is zero or
\* is not a number (buy_total and sell_total both infinite).
C2_Amended ==
    Populated =>
      /\ C2_Signs
      /\ (IsZero(html.profit_tax_base) /\ IsZero(html.unclosed))
           <=> (IsZero(html.raw_diff) \/ html.raw_diff = FNaN)

\* A populated run with a sell-heavy month: a positive profit, nothing unclosed.
C2_Witness ==
    /\ Populated
    /\ html.profit_tax_base = Fin(500) /\ html.unclosed = Fin(0)
    /\ html.raw_diff = Fin(500)

----------------------------------------------------------------------------
(* C4 *)

\* The rows of the input that are completed trades of the month on the page
SrcOfReportedMonth ==
    {x \in Src : /\ is_completed(SrcCell(x, "status"))
                 /\ ~isna(SrcCell(x, "total"))
                 /\ SubSeq(strip(PyStr(SrcCell(x, "time"))), 1, 7) = html.current_month}

\* The rows of the whole input, as a set
SrcRows == {SrcRow(x) : x \in Src}

\* C4: for the selected month buy_total is the sum of total_fiat over its BUY
\* rows, sell_total the sum over its SELL rows, raw_diff = sell_total -
\* buy_total and estimated_tax = profit_base x 10%; BUY 1000 and SELL 1500 give
\* 1000, 1500, 500, 500, 0 and 50; BUY 2000 and SELL 500 give -1500, 0, 1500, 0.
C4_Totals ==
    Populated =>
      /\ html.buy_sum = SrcSum({x \in SrcOfReportedMonth : SrcSide(x) = BUY})
      /\ html.sell_sum = SrcSum({x \in SrcOfReportedMonth : SrcSide(x) = SELL})
      /\ (html.buy_sum.k = "fin" /\ html.sell_sum.k = "fin")
           => /\ html.raw_diff.k = "fin"
              /\ html.raw_diff.v = html.sell_sum.v - html.buy_sum.v
      /\ html.profit_tax_base.k = "fin"
           => /\ html.ipn.k = "fin"
              /\ 100 * html.ipn.v = IPN_RATE_PCT * html.profit_tax_base.v
      /\ html.profit_tax_base.k = "inf" => html.ipn = html.profit_tax_base
      /\ (Cardinality(Src) = 2 /\ SrcRows = {R_buy_1000, R_sell_1500})
           => /\ html.buy_sum = Fin(1000) /\ html.sell_sum = Fin(1500)
              /\ html.raw_diff = Fin(500) /\ html.profit_tax_base = Fin(500)
              /\ html.unclosed = Fin(0) /\ html.ipn = Fin(50)
      /\ (Cardinality(Src) = 2 /\ SrcRows = {R_buy_2000, R_sell_500})
           => /\ html.buy_sum = Fin(2000) /\ html.sell_sum = Fin(500)
              /\ html.raw_diff = Fin(-1500) /\ html.profit_tax_base = Fin(0)
              /\ html.unclosed = Fin(1500) /\ html.ipn = Fin(0)

\* The run on a completed BUY of 1000 and a completed SELL of 1500, in two files
C4_Witness ==
    /\ Populated
    /\ Cardinality(Src) = 2 /\ SrcRows = {R_buy_1000, R_sell_1500}
    /\ Len(DATA_FILES) = 2 /\ Len(trades) = 2
    /\ html.ipn = Fin(50)

----------------------------------------------------------------------------
(* C3 *)

\* The rows of the input that are completed trades
SrcCompleted ==
    {x \in Src : is_completed(SrcCell(x, "status")) /\ ~isna(SrcCell(x, "total"))}

\* The latest month, in time, of the completed trades of the input
SrcLatestMonthNo ==
    CHOOSE k \in {SrcMonthNo(x) : x \in SrcCompleted} :
        \A x \in SrcCompleted : SrcMonthNo(x) <= k

SrcOfLatestMonth == {x \in SrcCompleted : SrcMonthNo(x) = SrcLatestMonthNo}

CsvIds == {csv.rows[i].order_id : i \in 1..Len(csv.rows)}

\* C3: the selected month is the latest month over the completed trades of
\* all files; exactly the rows of that month are counted in trade_count, summed
\* in buy_total and sell_total and written to docs/month_trades.csv, whatever
\* file they came from.
C3_LatestMonthOnly ==
    Populated =>
      /\ MonthNo(html.current_month) = SrcLatestMonthNo
      /\ html.month_trades = Cardinality(SrcOfLatestMonth)
      /\ html.buy_sum = SrcSum({x \in SrcOfLatestMonth : SrcSide(x) = BUY})
      /\ html.sell_sum = SrcSum({x \in SrcOfLatestMonth : SrcSide(x) = SELL})
      /\ csv.exists /\ Len(csv.rows) = html.month_trades
      /\ CsvIds = {PyStr(SrcCell(x, "order_id")) : x \in SrcOfLatestMonth}
      /\ \A i \in 1..Len(csv.rows) :
           MonthNo(SubSeq(csv.rows[i].created_at, 1, 7)) = SrcLatestMonthNo

\* Completed trades of two months in two files, the later month in the file
\* that is read first; the row of the earlier month is in no figure.
C3_Witness ==
    /\ Populated
    /\ Len(DATA_FILES) = 2
    /\ \E x, y \in SrcCompleted :
         /\ x[1] = DATA_FILES[1] /\ y[1] = DATA_FILES[2]
         /\ SrcMonthNo(x) > SrcMonthNo(y)
    /\ html.month_trades = 1 /\ Len(trades) = 2 /\ Len(csv.rows) = 1

----------------------------------------------------------------------------
(* C5 *)

NotAcceptedTexts == {T_pending, T_cancelled}

TradeIds == {trades[i].order_id.s : i \in 1..Len(trades)}

SrcAcceptedOfReportedMonth ==
    {x \in Src : /\ SrcCell(x, "status").s \notin NotAcceptedTexts
                 /\ SubSeq(SrcCell(x, "time").s, 1, 7) = html.current_month}

\* C5: a row whose status is not an accepted one ("pending", "Cancelled") is in
\* no total, not in trade_count, not in docs/month_trades.csv and does not
\* decide the selected month; a row with status " Completed " is kept.
C5_StatusFilter ==
    pc = "done" =>
      /\ \A x \in Src :
           /\ SrcCell(x, "status").s \in NotAcceptedTexts
                => /\ SrcCell(x, "order_id").s \notin TradeIds
                   /\ SrcCell(x, "order_id").s \notin CsvIds
           /\ SrcCell(x, "status").s = T_completed_padded
                => SrcCell(x, "order_id").s \in TradeIds
      /\ html.page = "report" =>
           /\ SrcAcceptedOfReportedMonth # {}
           /\ html.month_trades = Cardinality(SrcAcceptedOfReportedMonth)
           /\ html.buy_sum =
                SrcSum({x \in SrcAcceptedOfReportedMonth : SrcSide(x) = BUY})
           /\ html.sell_sum =
                SrcSum({x \in SrcAcceptedOfReportedMonth : SrcSide(x) = SELL})

\* A pending row of February beside a " Completed " row of January: the page
\* is January's and counts one trade.
C5_Witness ==
    /\ Populated
    /\ SrcRows = {R_feb_pending, R_sell_1500}
    /\ html.current_month = <<"2","0","2","4","-","0","1">>
    /\ html.month_trades = 1 /\ html.sell_sum = Fin(1500) /\ html.buy_sum = Fin(0)

----------------------------------------------------------------------------
(* C10 *)

CsvCount(side) == Cardinality({i \in 1..Len(csv.rows) : csv.rows[i].side = side})

SrcOtherSide == {x \in SrcOfReportedMonth : SrcSide(x) \notin {BUY, SELL}}

\* C10: a completed row whose side is neither BUY nor SELL stays in the working
\* set: it counts in trade_count, is written to docs/month_trades.csv and can
\* decide the selected month, but adds to neither total.  So trade_count >=
\* BUY rows + SELL rows of the month, with equality exactly when the month has
\* no such row.
C10_OtherSideKept ==
    Populated =>
      /\ \A x \in SrcCompleted : SrcMonthNo(x) <= MonthNo(html.current_month)
      /\ html.month_trades = Cardinality(SrcOfReportedMonth)
      /\ html.month_trades >= CsvCount(BUY) + CsvCount(SELL)
      /\ (html.month_trades = CsvCount(BUY) + CsvCount(SELL)) <=> (SrcOtherSide = {})
      /\ \A x \in SrcOtherSide :
           \E i \in 1..Len(csv.rows) :
              /\ csv.rows[i].order_id = SrcCell(x, "order_id").s
              /\ csv.rows[i].side = SrcSide(x)
      /\ html.buy_sum = SrcSum({x \in SrcOfReportedMonth : SrcSide(x) = BUY})
      /\ html.sell_sum = SrcSum({x \in SrcOfReportedMonth : SrcSide(x) = SELL})

\* A "Transfer" row of January after a SELL of December: the page is January's,
\* counts one trade and shows no buy and no sell.
C10_Witness ==
    /\ Populated
    /\ SrcRows = {R_transfer, R_dec_sell}
    /\ html.current_month = <<"2","0","2","4","-","0","1">>
    /\ html.month_trades = 1 /\ html.buy_sum = Fin(0) /\ html.sell_sum = Fin(0)
    /\ Len(csv.rows) = 1 /\ csv.rows[1].side = upper(T_Transfer)

----------------------------------------------------------------------------
(* C1 *)

Unreadable(n) == data[n].fmt = "junk"

LacksColumn(n) ==
    \E f \in DOMAIN CANDS :
       \A i \in 1..Len(CANDS[f]) :
          \A j \in 1..Len(data[n].columns) : data[n].columns[j] # CANDS[f][i]

\* The amount of row x is no number once the commas are removed
BadAmount(x) ==
    LET s == RemoveChar(PyStr(SrcCell(x, "total")), ",")
    IN  ~AllDigits(s) /\ s \notin {NanText, T_inf}

\* The time of row x is a text that is no date
BadTime(x) ==
    ~isna(SrcCell(x, "time")) /\ ~IsDate(strip(SrcCell(x, "time").s))

\* Row x reaches the parsing of its time, and its time is no date
BadTimeParsed(x) == x \in SrcCompleted /\ BadTime(x)

FatalInput ==
    \/ \E n \in Matched : Unreadable(n) \/ LacksColumn(n)
    \/ \E x \in Src : BadAmount(x) \/ BadTimeParsed(x)

\* C1: a run of main() that meets a file it cannot read, a header without an
\* alias of a required field, an amount or a timestamp it cannot coerce, in any
\* file of the list, ends in an error and leaves docs/index.html and
\* docs/month_trades.csv as they were before the run.
C1_FatalKeepsOutputs ==
    pc # "ready" =>
      /\ FatalInput => pc = "failed"
      /\ pc = "failed" => (html = html0 /\ csv = csv0)

\* A run fails on its second file, whose header has no status column, after an
\* earlier run wrote a report: the report and its CSV file are still there.
C1_Witness ==
    /\ pc = "failed" /\ err = "KeyError" /\ runs = 2
    /\ Len(DATA_FILES) = 2
    /\ DATA_FILES[1] \in GoodTables /\ LacksColumn(DATA_FILES[2])
    /\ html.page = "report" /\ csv.exists

----------------------------------------------------------------------------
(* C6 *)

\* C6 as claimed: with no input file, or no completed trade in any file,
\* main() writes the empty page, leaves docs/month_trades.csv alone and returns
\* without raising; only a populated run writes docs/month_trades.csv.
C6_EmptyState ==
    pc # "ready" =>
      /\ (Matched = {} \/ (~FatalInput /\ SrcCompleted = {}))
           => /\ pc = "done"
              /\ html.page \in {"no_data", "no_trades"}
              /\ csv = csv0
      /\ csv # csv0 => Populated

----------------------------------------------------------------------------
(* C7 *)

MissingCell(x) ==
    \E f \in {"order_id", "time", "side", "total"} : isna(SrcCell(x, f))

\* Row x is a completed row with every cell present and well-formed
SoundRow(x) ==
    /\ is_completed(SrcCell(x, "status")) /\ ~MissingCell(x)
    /\ ~BadAmount(x) /\ IsDate(strip(PyStr(SrcCell(x, "time"))))

\* The only defects of the input are missing cells of completed rows, and
\* every file has a sound row
OnlyMissingCells ==
    /\ Matched # {} /\ GoodTables = Matched
    /\ \A n \in Matched : \E x \in Src : x[1] = n /\ SoundRow(x)
    /\ \A x \in Src :
         \/ SoundRow(x)
         \/ /\ is_completed(SrcCell(x, "status")) /\ MissingCell(x)
            /\ ~BadAmount(x) /\ ~BadTime(x)

\* C7 as claimed: a completed row whose order id, time, side or amount cell is
\* missing is dropped silently: the run does not fail because of it, and the
\* row is in no total, not in trade_count and not in docs/month_trades.csv.
C7_MissingDropped ==
    pc # "ready" =>
      /\ OnlyMissingCells => pc = "done"
      /\ pc = "done" =>
           /\ \A x \in Src :
                (is_completed(SrcCell(x, "status")) /\ MissingCell(x))
                  => /\ PyStr(SrcCell(x, "order_id")) \notin TradeIds
                     /\ PyStr(SrcCell(x, "order_id")) \notin CsvIds
           /\ html.month_trades = Cardinality({x \in Src : SoundRow(x)})

----------------------------------------------------------------------------
(* C8 *)

\* C8 as claimed: a row, completed or not, with an amount that is no number or
\* a time that cannot be parsed makes the run abort with an error and produce
\* no report.
C8_Original ==
    (pc # "ready" /\ \E x \in Src : BadAmount(x) \/ BadTime(x))
      => (pc = "failed" /\ html = html0 /\ csv = csv0)

\* C8 amended: an amount that is no number aborts the run whatever the status
\* of its row; a time that cannot be parsed aborts the run when its row is
\* completed and has an amount.  In both cases no report is produced, whatever
\* the other files hold.
C8_Amended ==
    (pc # "ready"
       /\ \E x \in Src : BadAmount(x) \/ BadTimeParsed(x))
      => (pc = "failed" /\ html = html0 /\ csv = csv0)

\* A pending row with the amount "12x" in the second file, after a sound first
\* file: the run ends in ValueError.
C8_Witness ==
    /\ pc = "failed" /\ err = "ValueError"
    /\ Len(DATA_FILES) = 2
    /\ SrcRows = {R_buy_1000, R_bad_total_pending}
    /\ \E x \in Src : x[1] = DATA_FILES[2] /\ SrcRow(x) = R_bad_total_pending
    /\ html.page = "absent" /\ ~csv.exists

====
